---- MODULE Spec2Model ----
(***************************************************************************)
(* Model of the App component of Qubit-Quests (src/src/App.tsx) and of the *)
(* reference energies its ResultsTable shows (src/unnamed/part_000).       *)
(*                                                                         *)
(* The component holds five pieces of React state (config, isRunning,      *)
(* progress, results, dissociationData) and two async generators, runVQE   *)
(* and generateDissociationCurve, each of which suspends on a timer        *)
(* between iterations.  JavaScript runs one handler or one timer           *)
(* continuation at a time, so every action below is the code between two   *)
(* suspension points.                                                      *)
(*                                                                         *)
(* Numbers.  Energies are integers in units of 1e-5 Hartree, the error in  *)
(* units of 1e-5 milli-Hartree (so that "* 1000" is literal), bond lengths *)
(* in units of 0.01 Angstrom, progress in thirds of a percent (so that     *)
(* i/50*100 and i/15*100 are both exact).  Math.exp is computed in fixed   *)
(* point, Math.random is a generator with hidden state.                    *)
(***************************************************************************)
EXTENDS Integers, Sequences, FiniteSets, TLC

VARIABLES
    config,            \* useState<MoleculeConfig>: the fields the code reads
    isRunning,         \* useState(false)
    progress,          \* useState(0), in thirds of a percent
    results,           \* useState<VQEResult | null>: <<>> is null, <<r>> a result
    dissociationData,  \* useState([]): sequence of [r, energy]
    tasks,             \* the async invocations suspended on their timer
    rng,               \* hidden state of Math.random
    published,         \* iterations at which the latest runVQE called setResults
    download           \* the artifact the last step offered (a.click()), or <<>>

vars == <<config, isRunning, progress, results, dissociationData, tasks, rng,
          published, download>>

----------------------------------------------------------------------------
(* Bounds of the model *)

\* Math.random() returns k / RandMod for k in 0..RandMod-1
RandMod == 2

----------------------------------------------------------------------------
(* Constants of the program *)

totalIterations == 50
SnapshotEvery == 5
NumBondLengths == 15
InitialShots == 4000

\* fixed point: 1.0 of Math.exp's argument and value
FixedOne == 10000

NULL == <<>>
Some(v) == <<v>>
Val(o) == o[1]

Molecules == {"H2", "LiH"}
\* the code tells 'UCCSD' from every other ansatz label, 'statevector' from
\* every other backend label: one other label stands for each
Ansatzes == {"UCCSD", "HEA"}
Backends == {"statevector", "qasm"}
\* the form sets shots to 0 or back to the initial 4000
ShotsValues == {0, InitialShots}

Configs == [molecule : Molecules, ansatz : Ansatzes, backend : Backends,
            shots : ShotsValues]

InitialConfig == [molecule |-> "H2", ansatz |-> "UCCSD",
                  backend |-> "statevector", shots |-> InitialShots]

----------------------------------------------------------------------------
(* Math.exp and Math.random *)

RECURSIVE ExpTerm(_, _)
\* x^n / n! in fixed point
ExpTerm(x, n) == IF n = 0 THEN FixedOne
                 ELSE (ExpTerm(x, n - 1) * x) \div (n * FixedOne)

RECURSIVE ExpSum(_, _)
ExpSum(x, n) == IF n = 0 THEN ExpTerm(x, 0) ELSE ExpSum(x, n - 1) + ExpTerm(x, n)

RECURSIVE Exp(_)
\* Math.exp(x / FixedOne) * FixedOne: Taylor series on [-0.5, 0.5], squaring outside
Exp(x) == IF x < -(FixedOne \div 2) \/ x > FixedOne \div 2
          THEN LET h == Exp(x \div 2) IN (h * h) \div FixedOne
          ELSE ExpSum(x, 8)

\* the generator's next hidden state
NextRand(s) == (s + 1) % RandMod

----------------------------------------------------------------------------
(* runVQE *)

baseEnergy(cfg) == IF cfg.molecule = "H2" THEN -113727 ELSE -787730

\* Math.exp(-i * 0.1) for the iterations of a run
decay == [i \in 0..totalIterations |-> Exp(-(i * (FixedOne \div 10)))]

\* Math.exp(-i * 0.1) * 0.01 * (Math.random() - 0.5), with Math.random() = k / RandMod
noise(i, k) == (decay[i] * (2 * k - RandMod)) \div (20 * RandMod)

\* a progress that counts the iteration before its point is computed
ProgressAhead(i, n) == ((i + 1) * 100 * 3) \div n

\* (i / n) * 100, in thirds of a percent
Progress(i, n) == (i * 100 * 3) \div n

\* diagnostics whose error is kept from the result published before
DiagnosticsStaleError(cfg, i, energy) ==
    [qubits       |-> IF cfg.molecule = "H2" THEN 2 ELSE 8,
     pauliTerms   |-> IF cfg.molecule = "H2" THEN 5 ELSE 24,
     circuitDepth |-> IF cfg.ansatz = "UCCSD" THEN 12 ELSE 6,
     evaluations  |-> i + 1,
     totalShots   |-> IF cfg.backend = "statevector" THEN 0 ELSE cfg.shots * (i + 1),
     error        |-> IF results = NULL
                      THEN (IF energy - baseEnergy(cfg) < 0
                            THEN baseEnergy(cfg) - energy
                            ELSE energy - baseEnergy(cfg)) * 1000
                      ELSE Val(results).diagnostics.error]

\* diagnostics that count shots whatever the backend is
DiagnosticsShotsAnyBackend(cfg, i, energy) ==
    [qubits       |-> IF cfg.molecule = "H2" THEN 2 ELSE 8,
     pauliTerms   |-> IF cfg.molecule = "H2" THEN 5 ELSE 24,
     circuitDepth |-> IF cfg.ansatz = "UCCSD" THEN 12 ELSE 6,
     evaluations  |-> i + 1,
     totalShots   |-> cfg.shots * (i + 1),
     error        |-> (IF energy - baseEnergy(cfg) < 0
                       THEN baseEnergy(cfg) - energy
                       ELSE energy - baseEnergy(cfg)) * 1000]


Diagnostics(cfg, i, energy) ==
    [qubits       |-> IF cfg.molecule = "H2" THEN 2 ELSE 8,
     pauliTerms   |-> IF cfg.molecule = "H2" THEN 5 ELSE 24,
     circuitDepth |-> IF cfg.ansatz = "UCCSD" THEN 12 ELSE 6,
     evaluations  |-> i + 1,
     totalShots   |-> IF cfg.backend = "statevector" THEN 0 ELSE cfg.shots * (i + 1),
     error        |-> (IF energy - baseEnergy(cfg) < 0
                       THEN baseEnergy(cfg) - energy
                       ELSE energy - baseEnergy(cfg)) * 1000]

\* a snapshot taken before the point of its iteration is pushed
SnapshotBeforePush(cfg, i, energy, convergenceData) ==
    [energy      |-> energy,
     convergence |-> SubSeq(convergenceData, 1, Len(convergenceData) - 1),
     diagnostics |-> Diagnostics(cfg, i, energy)]

Snapshot(cfg, i, energy, convergenceData) ==
    [energy      |-> energy,
     convergence |-> convergenceData,
     diagnostics |-> Diagnostics(cfg, i, energy)]

RemoveAt(s, k) == [j \in 1..(Len(s) - 1) |-> IF j < k THEN s[j] ELSE s[j + 1]]

\* a Run VQE button that is never disabled
RunVQEAlwaysEnabled == TRUE

\* the Run VQE button: disabled={isRunning}
RunVQEEnabled == ~isRunning

\* click on Run VQE: runVQE up to its first await
ClickRunVQE ==
    /\ RunVQEEnabled
    /\ isRunning' = TRUE
    /\ progress' = 0
    /\ tasks' = Append(tasks, [kind |-> "vqe", i |-> 0, data |-> <<>>, cfg |-> config])
    /\ published' = <<>>
    /\ download' = NULL
    /\ UNCHANGED <<config, results, dissociationData, rng>>

\* a snapshot at the end of every block of five iterations instead of its start
IsSnapshotBlockEnd(i) == (i + 1) % SnapshotEvery = 0

\* a snapshot on every fifth iteration but the last
IsSnapshotNotLast(i) == i % SnapshotEvery = 0 /\ i < totalIterations

\* whether iteration i publishes a snapshot
IsSnapshot(i) == i % SnapshotEvery = 0

\* a published result that holds convergenceData itself and not a copy: the push
\* of a later iteration shows in it
SharedAfterPush(convergenceData) ==
    IF results = NULL
    THEN results
    ELSE Some([Val(results) EXCEPT !.convergence = convergenceData])

\* the published result after an iteration that pushes a point and publishes
\* nothing: it holds the copy [...convergenceData] made when it was published,
\* so the push does not reach it
PublishedAfterPush(convergenceData) == results

\* the timer of task k fires: one iteration of runVQE's loop, and the code after
\* the loop when it was the last
VQETick(k) ==
    /\ k \in DOMAIN tasks
    /\ tasks[k].kind = "vqe"
    /\ LET t == tasks[k]
           i == t.i
           energy == baseEnergy(t.cfg) + noise(i, rng)
           convergenceData == Append(t.data, [iteration |-> i, energy |-> energy])
       IN /\ rng' = NextRand(rng)
          /\ progress' = Progress(i, totalIterations)
          /\ IF IsSnapshot(i)
             THEN /\ results' = Some(Snapshot(t.cfg, i, energy, convergenceData))
                  /\ published' = Append(published, i)
             ELSE /\ results' = PublishedAfterPush(convergenceData)
                  /\ UNCHANGED published
          /\ IF i + 1 <= totalIterations
             THEN /\ tasks' = [tasks EXCEPT ![k] = [@ EXCEPT !.i = i + 1,
                                                            !.data = convergenceData]]
                  /\ UNCHANGED isRunning
             ELSE /\ tasks' = RemoveAt(tasks, k)
                  /\ isRunning' = FALSE
    /\ download' = NULL
    /\ UNCHANGED <<config, dissociationData>>

----------------------------------------------------------------------------
(* generateDissociationCurve *)

\* bondLengths[i] = 0.4 + i * 0.15
bondLength(i) == 40 + i * 15

\* -1.13727 + D * (1 - exp(-a * (r - re)))^2 - D, D = 0.4556, a = 1.44, re = 0.74
morseEnergy(r) ==
    LET e == Exp(-(144 * (r - 74)))
        sq == ((FixedOne - e) * (FixedOne - e)) \div FixedOne
    IN -113727 + (45560 * sq) \div FixedOne - 45560

\* the energy at each of the bond lengths
curveEnergy == [i \in 0..(NumBondLengths - 1) |-> morseEnergy(bondLength(i))]

\* the Generate Dissociation Curve button: disabled={isRunning}
DissociationEnabled == ~isRunning

ClickDissociation ==
    /\ DissociationEnabled
    /\ isRunning' = TRUE
    /\ tasks' = Append(tasks, [kind |-> "dissociation", i |-> 0, data |-> <<>>])
    /\ download' = NULL
    /\ UNCHANGED <<config, progress, results, dissociationData, rng, published>>

\* a curve published point by point
DissociationPublishEach(curveData, last) == curveData

\* what one iteration of the loop publishes of the curve so far
DissociationPublish(curveData, last) == IF last THEN curveData ELSE dissociationData

DissociationTick(k) ==
    /\ k \in DOMAIN tasks
    /\ tasks[k].kind = "dissociation"
    /\ LET t == tasks[k]
           i == t.i
           r == bondLength(i)
           curveData == Append(t.data, [r |-> r, energy |-> curveEnergy[i]])
           last == ~(i + 1 < NumBondLengths)
       IN /\ progress' = Progress(i, NumBondLengths)
          /\ dissociationData' = DissociationPublish(curveData, last)
          /\ IF last
             THEN /\ tasks' = RemoveAt(tasks, k)
                  /\ isRunning' = FALSE
             ELSE /\ tasks' = [tasks EXCEPT ![k] = [@ EXCEPT !.i = i + 1,
                                                            !.data = curveData]]
                  /\ UNCHANGED isRunning
    /\ download' = NULL
    /\ UNCHANGED <<config, results, rng, published>>

----------------------------------------------------------------------------
(* exportResults, the configuration form, the results table *)

Artifact(c, r, d) == [configuration |-> c, results |-> r, dissociation |-> d]

\* an export without the null check
ExportUnguarded == TRUE

\* if (!results) return
ExportGuard == results # NULL

ExportResults ==
    /\ download' = IF ExportGuard
                   THEN Some(Artifact(config, results, dissociationData))
                   ELSE NULL
    /\ UNCHANGED <<config, isRunning, progress, results, dissociationData, tasks,
                   rng, published>>

\* MolecularSetup calls setConfig with one field of the form edited
EditConfig ==
    /\ \E c \in Configs :
          /\ Cardinality({f \in DOMAIN c : c[f] # config[f]}) = 1
          /\ config' = c
    /\ download' = NULL
    /\ UNCHANGED <<isRunning, progress, results, dissociationData, tasks, rng,
                   published>>

\* ResultsTable: the reference energies shown with a result
hfEnergy(cfg) == IF cfg.molecule = "H2" THEN -111670 ELSE -786340
exactEnergy(cfg) == IF cfg.molecule = "H2" THEN -113730 ELSE -788110

----------------------------------------------------------------------------

Init ==
    /\ config = InitialConfig
    /\ isRunning = FALSE
    /\ progress = 0
    /\ results = NULL
    /\ dissociationData = <<>>
    /\ tasks = <<>>
    /\ rng \in 0..(RandMod - 1)
    /\ published = <<>>
    /\ download = NULL

TimerVQE == \E k \in DOMAIN tasks : VQETick(k)
TimerDissociation == \E k \in DOMAIN tasks : DissociationTick(k)

Next ==
    \/ ClickRunVQE
    \/ TimerVQE
    \/ ClickDissociation
    \/ TimerDissociation
    \/ ExportResults
    \/ EditConfig

Spec == Init /\ [][Next]_vars

\* The specification of a run's progress.  exportResults is left out: it reads
\* the state and changes none of it, so it neither delays nor helps a run.
\* The browser's event loop runs every timer that is due.
NextRun ==
    \/ ClickRunVQE
    \/ TimerVQE
    \/ ClickDissociation
    \/ TimerDissociation
    \/ EditConfig

FairSpec ==
    /\ Init
    /\ [][NextRun]_vars
    /\ WF_vars(TimerVQE)
    /\ WF_vars(TimerDissociation)

----------------------------------------------------------------------------
(* Properties *)

VQETasks == {k \in DOMAIN tasks : tasks[k].kind = "vqe"}
DissociationTasks == {k \in DOMAIN tasks : tasks[k].kind = "dissociation"}
VQEInFlight == VQETasks # {}
DissociationInFlight == DissociationTasks # {}

Abs(x) == IF x < 0 THEN -x ELSE x
IsPrefix(s, t) == Len(s) <= Len(t) /\ s = SubSeq(t, 1, Len(s))

\* the molecule a published result was computed for, read off its diagnostics
MoleculeOf(r) == IF r.diagnostics.qubits = 2 THEN "H2" ELSE "LiH"
ReferenceOf(r) == IF MoleculeOf(r) = "H2" THEN -113727 ELSE -787730

\* C1: at most one generator run is in flight, and isRunning is true exactly
\* while one is; so no click starts runVQE or generateDissociationCurve while
\* a run has started and not finished, whatever the order of clicks and timers.
C1_OneRunInFlight ==
    /\ Len(tasks) <= 1
    /\ isRunning <=> (Len(tasks) = 1)

\* C1 witness: a dissociation run is in flight after a convergence run finished.
C1_Witness ==
    /\ isRunning
    /\ results # NULL
    /\ Len(tasks) = 1
    /\ tasks[1].kind = "dissociation"
    /\ tasks[1].i = 3

\* C2: a run of the convergence simulator publishes a snapshot exactly at the
\* iterations 0, 5, 10, ..., 50, in increasing order: after the points of
\* iterations 0..i-1 the log holds the multiples of five below i, a finished
\* run has published exactly 11 snapshots, and the last one has evaluations 51.
C2_SnapshotsEveryFifth ==
    /\ \A j \in DOMAIN published : published[j] = 5 * (j - 1)
    /\ \A k \in VQETasks : Len(published) = (tasks[k].i + 4) \div 5
    /\ (published # <<>> /\ results # NULL) =>
           Val(results).diagnostics.evaluations = published[Len(published)] + 1
    /\ (results # NULL /\ ~VQEInFlight) =>
           /\ Len(published) = 11
           /\ published[11] = 50
           /\ Val(results).diagnostics.evaluations = 51

\* C2 witness: a convergence run has finished with its 11 snapshots published.
C2_Witness ==
    /\ ~isRunning
    /\ Len(published) = 11
    /\ results # NULL

\* C3 (as claimed): while a convergence run is in flight, the convergence
\* sequence shown holds points of that run only: the published sequence is
\* empty or a prefix of the run's own points, never points of an earlier run.
C3_NoPointsOfPreviousRun ==
    \A k \in VQETasks :
        results # NULL => IsPrefix(Val(results).convergence, tasks[k].data)

\* C4: whenever a result is present, its diagnostics.error is
\* abs(energy - reference) * 1000 for the reference energy of the molecule the
\* run used, whatever the configuration has been edited to since.
C4_ErrorFromLatestEnergy ==
    results # NULL =>
        Val(results).diagnostics.error
            = Abs(Val(results).energy - ReferenceOf(Val(results))) * 1000

\* C4 witness: a result with a non-zero error is present in the middle of a
\* run, after earlier snapshots with other energies, and the configured
\* molecule is no longer the one the run used.
C4_Witness ==
    /\ results # NULL
    /\ Val(results).diagnostics.error # 0
    /\ Val(results).diagnostics.evaluations = 11
    /\ Val(results).convergence[1].energy # Val(results).energy
    /\ config.molecule # MoleculeOf(Val(results))

\* C5: under fair timer firing every convergence run in flight leads to a state
\* where isRunning is false and the published result holds the 51 points of
\* iterations 0..50; and the step that completes a run leaves isRunning false
\* and a result whose sequence is the run's 50 earlier points and the last one.
C5_RunCompletesWithAllPoints ==
    /\ VQEInFlight ~>
           (/\ ~isRunning
            /\ results # NULL
            /\ Len(Val(results).convergence) = 51
            /\ \A j \in 1..51 : Val(results).convergence[j].iteration = j - 1)
    /\ [][(VQEInFlight /\ ~VQEInFlight') =>
             /\ ~isRunning'
             /\ results' # NULL
             /\ Len(Val(results').convergence) = 51
             /\ \A k \in VQETasks :
                    SubSeq(Val(results').convergence, 1, 50) = tasks[k].data]_vars

\* C5 witness: a convergence run has completed and its result holds 51 points.
C5_Witness ==
    /\ ~isRunning
    /\ results # NULL
    /\ Len(Val(results).convergence) = 51
    /\ Val(results).convergence[51].iteration = 50

\* C6: a dissociation run publishes once, in full: no state shows 1..14 points,
\* no step that leaves a dissociation run in flight changes dissociationData,
\* and the step that completes the run sets it to the 15 points of the run,
\* ordered by bond length.
C6_DissociationPublishedOnce ==
    [][/\ Len(dissociationData') \in {0, 15}
       /\ DissociationInFlight' => dissociationData' = dissociationData
       /\ (DissociationInFlight /\ ~DissociationInFlight') =>
              /\ Len(dissociationData') = 15
              /\ \A k \in DissociationTasks :
                     SubSeq(dissociationData', 1, 14) = tasks[k].data
              /\ \A j \in 1..14 :
                     dissociationData'[j].r < dissociationData'[j + 1].r]_vars

\* C6 witness: a second dissociation run is half way while the 15 points of
\* the first are still shown.
C6_Witness ==
    /\ Len(dissociationData) = 15
    /\ \E k \in DissociationTasks : tasks[k].i = 7

\* C7: exportResults offers no artifact while results is null, whatever the
\* dissociation data and configuration are; an artifact offered holds the
\* current configuration, result and dissociation sequence, and offering it
\* changed none of them.
C7_ExportNothingWithoutResult ==
    /\ results = NULL => download = NULL
    /\ download # NULL =>
           /\ Val(download).configuration = config
           /\ Val(download).results = results
           /\ Val(download).dissociation = dissociationData

\* C7 witness: no result exists, a dissociation sequence has been published and
\* the configuration has been edited: exportResults is invoked here and offers
\* nothing.
C7_Witness ==
    /\ results = NULL
    /\ Len(dissociationData) = 15
    /\ config # InitialConfig
    /\ download = NULL
    /\ ENABLED ExportResults

\* C8: during a convergence run progress never decreases; it is 0 when the run
\* starts, 100 * i / 50 once the point of iteration i is computed, and 100 when
\* the run completes (progress is held in thirds of a percent).
C8_ProgressMonotone ==
    [][/\ VQEInFlight => progress' >= progress
       /\ \A k \in DOMAIN tasks' :
              tasks'[k].kind = "vqe" =>
                  progress' * 50 = 3 * 100 * (IF tasks'[k].i = 0 THEN 0
                                              ELSE tasks'[k].i - 1)
       /\ (VQEInFlight /\ ~VQEInFlight') => progress' = 3 * 100]_vars

\* C8 witness: half way through a convergence run progress is 50 percent.
C8_Witness ==
    /\ \E k \in VQETasks : tasks[k].i = 26
    /\ progress = 3 * 50

\* C9: every step that publishes a result publishes a snapshot of a convergence
\* run at its iteration i, with evaluations i + 1 and totalShots 0 for the
\* statevector backend and shots * (i + 1) otherwise, shots and backend being
\* those of the run.
C9_EvaluationsAndShots ==
    [][results' # results =>
          /\ results' # NULL
          /\ \E k \in VQETasks :
                /\ Val(results').diagnostics.evaluations = tasks[k].i + 1
                /\ Val(results').diagnostics.totalShots =
                       IF tasks[k].cfg.backend = "statevector"
                       THEN 0
                       ELSE tasks[k].cfg.shots * (tasks[k].i + 1)]_vars

\* C9 witness: a run on a sampling backend with 4000 shots has published its
\* last snapshot.
C9_Witness ==
    /\ results # NULL
    /\ Val(results).diagnostics.evaluations = 51
    /\ Val(results).diagnostics.totalShots = 4000 * 51

\* C10 (as claimed): the configuration does not change while a run is in
\* flight: the configuration shown, from which the results table takes its
\* reference energies, is the one the run in flight computes its snapshots from.
C10_ConfigImmutableDuringRun ==
    \A k \in VQETasks :
        /\ tasks[k].cfg = config
        /\ exactEnergy(tasks[k].cfg) = exactEnergy(config)
        /\ hfEnergy(tasks[k].cfg) = hfEnergy(config)

\* C11: a published result is replaced as a whole and never changed in place:
\* every wake-up of a convergence run adds one point to the run's own sequence,
\* at an iteration that is no multiple of five it leaves the published result,
\* its convergence sequence included, as it was, at a multiple of five the new
\* result holds the run's whole sequence; and no step taken while a
\* dissociation run is in flight changes the published result.
C11_ResultReplacedWholesale ==
    [][/\ \A k \in VQETasks :
              (k \in DOMAIN tasks' /\ tasks'[k].i = tasks[k].i + 1) =>
                  /\ Len(tasks'[k].data) = Len(tasks[k].data) + 1
                  /\ SubSeq(tasks'[k].data, 1, Len(tasks[k].data)) = tasks[k].data
                  /\ IF tasks[k].i % 5 = 0
                     THEN /\ results' # NULL
                          /\ Val(results').convergence = tasks'[k].data
                     ELSE results' = results
       /\ (DissociationInFlight \/ DissociationInFlight') => results' = results]_vars

\* C11 witness: in the second convergence run the points of iterations 0..8 are
\* accumulated and the published result is still the snapshot of iteration 5.
C11_Witness ==
    /\ Len(dissociationData) = 15
    /\ results # NULL
    /\ Len(Val(results).convergence) = 6
    /\ \E k \in VQETasks :
           /\ tasks[k].i = 9
           /\ Len(tasks[k].data) = 9
           /\ IsPrefix(Val(results).convergence, tasks[k].data)

\* C12: a published result is consistent in itself: its convergence sequence
\* holds the iterations 0..k in order without gap or duplicate, its length is
\* diagnostics.evaluations, and its energy is the energy of the last point.
C12_ResultConsistent ==
    results # NULL =>
        LET r == Val(results)
            n == Len(r.convergence)
        IN /\ n >= 1
           /\ \A j \in 1..n : r.convergence[j].iteration = j - 1
           /\ n = r.diagnostics.evaluations
           /\ r.energy = r.convergence[n].energy

\* C12 witness: the snapshot of iteration 25 is published, with 26 points whose
\* energies are not all the same.
C12_Witness ==
    /\ results # NULL
    /\ Val(results).diagnostics.evaluations = 26
    /\ Len(Val(results).convergence) = 26
    /\ Val(results).convergence[1].energy # Val(results).convergence[26].energy

====
